---- MODULE Spec2Model ----
(***************************************************************************)
(* A model of oneview-rs (src/main.rs): the alignment assembler            *)
(* (parse_alignment), the two drivers that call it (read_all_alignments,   *)
(* read_single_alignment), the coordinate normalisation and add_offset.    *)
(*                                                                         *)
(* The record stream is the sequence `stream`; the reader's current line   *)
(* is stream[pos], and read_line moves pos forward by one and returns the  *)
(* type of the new current line, "EOF" (the reader's '\0') past the end.   *)
(* i64 is modelled as a signed word of IntBits bits.                       *)
(***************************************************************************)
EXTENDS Integers, Sequences, FiniteSets, TLC

\* ------------------------------------------------------------- bounds
MaxLen == 3
MaxIdx == 3
IntBits == 12

\* ------------------------------------------------------------- i64
Modulus == 2 ^ IntBits
I64_MAX == (2 ^ (IntBits - 1)) - 1
I64_MIN == 0 - (2 ^ (IntBits - 1))

InRange(x) == I64_MIN <= x /\ x <= I64_MAX

\* Two's-complement wrap-around of an exact integer to the word.
Wrap(x) == ((x - I64_MIN) % Modulus) + I64_MIN

\* ------------------------------------------------------------- records
Rec(t, i, l) == [t |-> t, i |-> i, l |-> l]

\* Primary records: i = <<query id, query start, query end,
\*                        target id, target start, target end>>.
PrimaryRecords ==
    { Rec("A", <<1, 5, 9, 1, 10, 40>>, <<>>),
      Rec("A", <<2, 0, 3, 2, I64_MIN, 40>>, <<>>) }

AttributeRecords ==
    { Rec("R", <<>>, <<>>),
      Rec("D", <<3>>, <<>>),
      Rec("T", <<>>, <<1, 2>>),
      Rec("X", <<>>, <<7>>) }

OtherRecords ==
    { Rec("g", <<>>, <<>>),
      Rec("S", <<>>, <<>>),
      Rec("Q", <<>>, <<4>>) }

Records == PrimaryRecords \cup AttributeRecords \cup OtherRecords

Streams == UNION { [1..n -> Records] : n \in 0..MaxLen }

\* ------------------------------------------------------------- catalogs
Tbl(S, f) == [x \in S |-> f[x]]

QNames == (1 :> "q1") @@ (2 :> "q2")
QLens == (1 :> 500) @@ (2 :> 600)
QOffs == (1 :> <<0, 500>>) @@ (2 :> <<100, 600>>)
TNames == (1 :> "t1") @@ (2 :> "t2")
TLens == (1 :> 1200) @@ (2 :> 1500)
TOffs == (1 :> <<0, 1000>>) @@ (2 :> <<0 - 1, 1000>>)
TOffsShift == (1 :> <<200, 1000>>) @@ (2 :> <<0, 1000>>)

FileMetadata(qn, ql, qo, tn, tl, to) ==
    [query_seq_names |-> qn, query_seq_lengths |-> ql, query_contig_offsets |-> qo,
     target_seq_names |-> tn, target_seq_lengths |-> tl, target_contig_offsets |-> to]

Catalogs ==
    { FileMetadata(Tbl({1, 2}, QNames), Tbl({1, 2}, QLens), Tbl({1, 2}, QOffs),
                   Tbl({1, 2}, TNames), Tbl({1, 2}, TLens), Tbl({1, 2}, TOffs)),
      FileMetadata(Tbl({1, 2}, QNames), Tbl({1, 2}, QLens), Tbl({1, 2}, QOffs),
                   Tbl({1, 2}, TNames), Tbl({1, 2}, TLens), Tbl({1, 2}, TOffsShift)),
      FileMetadata(Tbl({1, 2}, QNames), Tbl({1, 2}, QLens), Tbl({1}, QOffs),
                   Tbl({1, 2}, TNames), Tbl({1, 2}, TLens), Tbl({1}, TOffs)),
      FileMetadata(Tbl({}, QNames), Tbl({}, QLens), Tbl({}, QOffs),
                   Tbl({}, TNames), Tbl({}, TLens), Tbl({}, TOffs)) }

\* ------------------------------------------------------------- state
VARIABLES
    stream,        \* the records of the input file
    metadata,      \* the FileMetadata handed to the readers
    alignment,     \* args.alignment: NoneIdx, or the requested ordinal
    index,         \* what goto found: "unknown", "present" or "absent"
    pc,            \* position in the program
    pos,           \* the reader's current line (0 before the first read)
    current_line,  \* read_all_alignments' current_line
    next_line,     \* the line type parse_alignment returns
    aln,           \* parse_alignment's AlignmentData
    loc,           \* parse_alignment's locals (offsets and raw coordinates)
    out,           \* the units handed to print_alignment, in order
    hist,          \* per emitted unit: the primary line it was opened on and
                   \* the reader's position when it was emitted
    err,           \* the error the run ended with, "" if none
    stale_field,   \* what the reader's field buffer holds in the slots the
                   \* current line does not define
    \* get_file_metadata, the reference loop
    references,    \* file.get_references(): the declared references, in order
    embedded,      \* the catalog embedded in the alignment file
    ref_idx,       \* the loop's ref_idx (0-based)
    query_tables,  \* query_seq_names, query_seq_lengths, query_contig_offsets
    target_tables, \* target_seq_names, target_seq_lengths, target_contig_offsets
    has_external_query,
    has_external_target,
    messages,      \* what get_file_metadata wrote with eprintln!, in order
    mpc,           \* position in get_file_metadata
    \* get_file_metadata, the search for one reference's database
    query_path,    \* the declared reference path
    aln_dir,       \* the alignment file's directory
    existing,      \* the paths that exist
    gdb_path,      \* the Option<String> the six strategies fill
    ppc,           \* position in the search
    \* get_file_metadata, the trace spacing scan
    trace_spacing,
    spos,          \* the current line of get_file_metadata's reader
    spc,           \* position in the scan
    \* main
    args,          \* the parsed command line
    input,         \* what the input file holds, as far as main's output shows
    stdout,        \* what was written to standard output, in order
    stderr,        \* what was written to standard error, in order
    opened,        \* whether the input file has been opened
    gpc,           \* position in main
    \* print_alignment_paf
    paf_aln,       \* the AlignmentData to print
    paf_line,      \* the lines written, each with its fields
    \* print_metadata, the alignment count
    count,
    cpos,          \* the current line of print_metadata's reader
    cpc            \* position in the count

\* The state of the readers, and the state the other parts of the program add.
readerVars == <<stream, metadata, alignment, index, pc, pos, current_line, next_line,
                aln, loc, out, hist, err>>
metaVars == <<references, embedded, ref_idx, query_tables, target_tables,
              has_external_query, has_external_target, messages, mpc>>
pathVars == <<query_path, aln_dir, existing, gdb_path, ppc>>
spacingVars == <<trace_spacing, spos, spc>>
mainVars == <<args, input, stdout, stderr, opened, gpc>>
pafVars == <<paf_aln, paf_line>>
countVars == <<count, cpos, cpc>>
otherVars == <<stale_field, metaVars, pathVars, spacingVars, mainVars, pafVars, countVars>>
vars == <<readerVars, otherVars>>

NoneIdx == 0 - 1

\* ------------------------------------------------------------- the reader
\* The type of line p; the reader returns '\0' past the last record.
TypeAt(p) == IF p \in 1..Len(stream) THEN stream[p].t ELSE "EOF"

\* read_line: the position of the line after p.
read_line(p) == IF p >= Len(stream) THEN Len(stream) + 1 ELSE p + 1

\* file.int(k) on the current line p: the line's field k, or what the field
\* buffer holds there when the line has no such field.
file_int(p, k) ==
    IF p \in 1..Len(stream) /\ (k + 1) \in DOMAIN stream[p].i
    THEN stream[p].i[k + 1]
    ELSE stale_field[k + 1]

\* The positions of the primary records, and the position of the n-th.
APositions == { p \in 1..Len(stream) : stream[p].t = "A" }
NumA == Cardinality(APositions)
NthA(n) == CHOOSE p \in APositions : Cardinality({ q \in APositions : q <= p }) = n

\* file.goto('A', i): Ok iff the file has a binary index and holds an i-th
\* primary record.
goto_ok_scan(has_index, i) == 1 <= i /\ i <= NumA
goto_ok(has_index, i) == has_index /\ 1 <= i /\ i <= NumA

\* The ordinal read_single_alignment passes to goto: (idx + 1) as i64.
goto_ordinal_same(idx) == idx
goto_ordinal_clamped(idx) == IF idx + 1 <= NumA THEN idx + 1 ELSE NumA
goto_ordinal(idx) == idx + 1

\* ------------------------------------------------------------- Init
EmptyAln ==
    [query_name |-> "", query_length |-> 0, query_start |-> 0, query_end |-> 0,
     target_name |-> "", target_length |-> 0, target_start |-> 0, target_end |-> 0,
     strand |-> "", differences |-> 0, tracepoints |-> <<>>, trace_diffs |-> <<>>]

EmptyLoc ==
    [src |-> 0, query_offset |-> 0, target_offset |-> 0, target_contig_len |-> 0,
     query_contig_start |-> 0, query_contig_end |-> 0,
     target_contig_start |-> 0, target_contig_end |-> 0]

\* The parts of the program a specification leaves out stay as they are here.
IdleJump == stale_field = <<0, 0, 0, 0, 0, 0>>

IdleMeta ==
    /\ references = <<>>
    /\ embedded = 0
    /\ ref_idx = 0
    /\ query_tables = 0
    /\ target_tables = 0
    /\ has_external_query = FALSE
    /\ has_external_target = FALSE
    /\ messages = <<>>
    /\ mpc = "idle"

IdlePath ==
    /\ query_path = <<>>
    /\ aln_dir = ""
    /\ existing = {}
    /\ gdb_path = <<>>
    /\ ppc = "idle"

IdleSpacing ==
    /\ trace_spacing = 0
    /\ spos = 0
    /\ spc = "idle"

IdleMain ==
    /\ args = 0
    /\ input = 0
    /\ stdout = <<>>
    /\ stderr = <<>>
    /\ opened = FALSE
    /\ gpc = "idle"

IdlePaf ==
    /\ paf_aln = 0
    /\ paf_line = <<>>

IdleCount ==
    /\ count = 0
    /\ cpos = 0
    /\ cpc = "idle"

Init ==
    /\ IdleMeta /\ IdlePath /\ IdleSpacing /\ IdleMain /\ IdlePaf /\ IdleCount
    /\ stream \in Streams
    /\ metadata \in Catalogs
    /\ alignment \in {NoneIdx} \cup (0..MaxIdx)
    /\ index = "unknown"
    /\ pc = "main"
    /\ pos = 0
    /\ current_line = ""
    /\ next_line = ""
    /\ aln = EmptyAln
    /\ loc = EmptyLoc
    /\ out = <<>>
    /\ hist = <<>>
    /\ err = ""
    /\ IdleJump

\* ------------------------------------------------------------- main
\* main's match on (args.metadata, args.alignment), without --metadata.
main ==
    /\ pc = "main"
    /\ pc' = IF alignment = NoneIdx THEN "all_open" ELSE "single_goto"
    /\ UNCHANGED <<stream, metadata, alignment, index, pos, current_line, next_line,
                   aln, loc, out, hist, err>>
    /\ UNCHANGED otherVars

\* ------------------------------------------------------------- parse_alignment
\* The first failing catalog lookup of parse_alignment, "" if all succeed.
lookup_error(query_id, target_id) ==
    IF query_id \notin DOMAIN metadata.query_seq_names THEN "QueryNameNotFound"
    ELSE IF target_id \notin DOMAIN metadata.target_seq_names THEN "TargetNameNotFound"
    ELSE IF query_id \notin DOMAIN metadata.query_seq_lengths THEN "QueryLengthNotFound"
    ELSE IF target_id \notin DOMAIN metadata.target_seq_lengths THEN "TargetLengthNotFound"
    ELSE IF query_id \notin DOMAIN metadata.query_contig_offsets THEN "QueryOffsetNotFound"
    ELSE IF target_id \notin DOMAIN metadata.target_contig_offsets THEN "TargetOffsetNotFound"
    ELSE ""

\* The AlignmentData parse_alignment starts from, on primary line p.
new_alignment_carried(p) ==
    [query_name |-> metadata.query_seq_names[file_int(p, 0)],
     query_length |-> metadata.query_seq_lengths[file_int(p, 0)],
     query_start |-> 0, query_end |-> 0,
     target_name |-> metadata.target_seq_names[file_int(p, 3)],
     target_length |-> metadata.target_seq_lengths[file_int(p, 3)],
     target_start |-> 0, target_end |-> 0,
     strand |-> IF aln.strand = "-" THEN "-" ELSE "+", differences |-> aln.differences,
     tracepoints |-> aln.tracepoints, trace_diffs |-> aln.trace_diffs]

new_alignment(p) ==
    [query_name |-> metadata.query_seq_names[file_int(p, 0)],
     query_length |-> metadata.query_seq_lengths[file_int(p, 0)],
     query_start |-> 0, query_end |-> 0,
     target_name |-> metadata.target_seq_names[file_int(p, 3)],
     target_length |-> metadata.target_seq_lengths[file_int(p, 3)],
     target_start |-> 0, target_end |-> 0,
     strand |-> "+", differences |-> 0, tracepoints |-> <<>>, trace_diffs |-> <<>>]

\* parse_alignment's locals, read from primary line p and the offset tables.
new_locals(p) ==
    [src |-> p,
     query_offset |-> metadata.query_contig_offsets[file_int(p, 0)][1],
     target_offset |-> metadata.target_contig_offsets[file_int(p, 3)][1],
     target_contig_len |-> metadata.target_contig_offsets[file_int(p, 3)][2],
     query_contig_start |-> file_int(p, 1), query_contig_end |-> file_int(p, 2),
     target_contig_start |-> file_int(p, 4), target_contig_end |-> file_int(p, 5)]

\* Entry of parse_alignment up to the loop: ids, catalog lookups, raw coordinates.
parse_alignment_begin ==
    /\ pc = "parse_begin"
    /\ LET e == lookup_error(file_int(pos, 0), file_int(pos, 3))
       IN IF e # ""
          THEN /\ pc' = "failed"
               /\ err' = e
               /\ UNCHANGED <<aln, loc>>
          ELSE /\ pc' = "parse_loop"
               /\ aln' = new_alignment(pos)
               /\ loc' = new_locals(pos)
               /\ err' = err
    /\ UNCHANGED <<stream, metadata, alignment, index, pos, current_line, next_line,
                   out, hist>>
    /\ UNCHANGED otherVars

\* The line types that end parse_alignment's loop.
is_break_unknown(t) == t \notin {"R", "D", "T", "X"}
is_break(t) == t \in {"A", "a", "g", "S", "^", "EOF"}

\* One non-breaking arm of the loop's match, applied to record rec.
match_line_reset(a, rec) ==
    CASE rec.t = "R" -> [a EXCEPT !.strand = "-"]
      [] rec.t = "D" -> [a EXCEPT !.differences = rec.i[1]]
      [] rec.t = "T" -> [a EXCEPT !.tracepoints = rec.l]
      [] rec.t = "X" -> [a EXCEPT !.trace_diffs = rec.l]
      [] OTHER -> [a EXCEPT !.strand = "+", !.differences = 0,
                            !.tracepoints = <<>>, !.trace_diffs = <<>>]

match_line_paired(a, rec) ==
    CASE rec.t = "R" -> [a EXCEPT !.strand = "-"]
      [] rec.t = "D" -> [a EXCEPT !.differences = rec.i[1]]
      [] rec.t = "T" -> [a EXCEPT !.tracepoints = rec.l, !.trace_diffs = <<>>]
      [] rec.t = "X" -> [a EXCEPT !.trace_diffs = rec.l]
      [] OTHER -> a

match_line(a, rec) ==
    CASE rec.t = "R" -> [a EXCEPT !.strand = "-"]
      [] rec.t = "D" -> [a EXCEPT !.differences = rec.i[1]]
      [] rec.t = "T" -> [a EXCEPT !.tracepoints = rec.l]
      [] rec.t = "X" -> [a EXCEPT !.trace_diffs = rec.l]
      [] OTHER -> a

\* One iteration of parse_alignment's loop: read a line, apply it or break.
parse_alignment_loop ==
    /\ pc = "parse_loop"
    /\ LET p == read_line(pos)
       IN /\ pos' = p
          /\ IF is_break(TypeAt(p))
             THEN /\ next_line' = TypeAt(p)
                  /\ pc' = "parse_end"
                  /\ aln' = aln
             ELSE /\ aln' = match_line(aln, stream[p])
                  /\ pc' = "parse_loop"
                  /\ next_line' = next_line
    /\ UNCHANGED <<stream, metadata, alignment, index, current_line, loc, out, hist, err>>
    /\ UNCHANGED otherVars

\* offset.checked_add(position): <<TRUE, sum>> or <<FALSE, 0>> on overflow.
add_offset(offset, position) ==
    IF InRange(offset + position) THEN <<TRUE, offset + position>> ELSE <<FALSE, 0>>

\* The unchecked i64 subtraction of the reverse flip. With overflow checks
\* (debug profile) an overflow panics; without (release) it wraps.
sub_overflows(a, b) == ~InRange(a - b)
wrapping_sub(a, b) == Wrap(a - b)

\* The end of parse_alignment: the reverse flip and the four add_offset calls.
\* status is "ok", "panic" (subtract with overflow) or "overflow" (add_offset).
normalize(a, l, overflow_checks) ==
    LET rev == a.strand \in {"-", "'"}
        panics == /\ rev
                  /\ overflow_checks
                  /\ \/ sub_overflows(l.target_contig_len, l.target_contig_end)
                     \/ sub_overflows(l.target_contig_len, l.target_contig_start)
        tcs == IF rev THEN wrapping_sub(l.target_contig_len, l.target_contig_end)
               ELSE l.target_contig_start
        tce == IF rev THEN wrapping_sub(l.target_contig_len, l.target_contig_start)
               ELSE l.target_contig_end
        qs == add_offset(l.query_offset, l.query_contig_start)
        qe == add_offset(l.query_offset, l.query_contig_end)
        ts == add_offset(l.target_offset, tcs)
        te == add_offset(l.target_offset, tce)
    IN IF panics THEN [status |-> "panic", aln |-> a]
       ELSE IF ~(qs[1] /\ qe[1] /\ ts[1] /\ te[1]) THEN [status |-> "overflow", aln |-> a]
       ELSE [status |-> "ok",
             aln |-> [a EXCEPT !.query_start = qs[2], !.query_end = qe[2],
                               !.target_start = ts[2], !.target_end = te[2]]]

parse_alignment_end ==
    /\ pc = "parse_end"
    /\ \E overflow_checks \in BOOLEAN :
         LET r == normalize(aln, loc, overflow_checks)
         IN IF r.status = "ok"
            THEN /\ aln' = r.aln
                 /\ pc' = "print"
                 /\ err' = err
            ELSE /\ aln' = aln
                 /\ pc' = "failed"
                 /\ err' = IF r.status = "panic" THEN "SubtractOverflowPanic"
                           ELSE "CoordinateOverflow"
    /\ UNCHANGED <<stream, metadata, alignment, index, pos, current_line, next_line,
                   loc, out, hist>>
    /\ UNCHANGED otherVars

\* ------------------------------------------------------------- read_all_alignments
\* OneFile::open_read and the first read_line.
all_open ==
    /\ pc = "all_open"
    /\ pos' = read_line(pos)
    /\ current_line' = TypeAt(read_line(pos))
    /\ pc' = "all_loop"
    /\ UNCHANGED <<stream, metadata, alignment, index, next_line, aln, loc, out,
                   hist, err>>
    /\ UNCHANGED otherVars

\* One pass of the loop's match on current_line.
all_loop ==
    /\ pc = "all_loop"
    /\ IF current_line = "EOF"
       THEN /\ pc' = "done"
            /\ UNCHANGED <<pos, current_line>>
       ELSE IF current_line = "A"
       THEN /\ pc' = "parse_begin"
            /\ UNCHANGED <<pos, current_line>>
       ELSE /\ pos' = read_line(pos)
            /\ current_line' = TypeAt(read_line(pos))
            /\ pc' = "all_loop"
    /\ UNCHANGED <<stream, metadata, alignment, index, next_line, aln, loc, out,
                   hist, err>>
    /\ UNCHANGED otherVars

\* Where read_all_alignments continues after a unit: current_line becomes the
\* line type parse_alignment returned, and no further line is read.
after_unit_reread(returned, p) == [line |-> TypeAt(read_line(p)), pos |-> read_line(p)]
after_unit(returned, p) == [line |-> returned, pos |-> p]

\* parse_alignment returned Ok: print_alignment, then current_line = next_line.
all_print ==
    /\ pc = "print"
    /\ alignment = NoneIdx
    /\ out' = Append(out, aln)
    /\ hist' = Append(hist, [src |-> loc.src, at |-> pos])
    /\ current_line' = after_unit(next_line, pos).line
    /\ pos' = after_unit(next_line, pos).pos
    /\ pc' = "all_loop"
    /\ UNCHANGED <<stream, metadata, alignment, index, next_line, aln, loc, err>>
    /\ UNCHANGED otherVars

\* ------------------------------------------------------------- read_single_alignment
\* OneFile::open_read and file.goto('A', idx + 1); the file has a binary
\* index or it has none.
single_goto ==
    /\ pc = "single_goto"
    /\ \E has_index \in BOOLEAN :
         /\ index' = IF has_index THEN "present" ELSE "absent"
         /\ IF goto_ok(has_index, goto_ordinal(alignment))
            THEN /\ pos' = NthA(goto_ordinal(alignment)) - 1
                 /\ pc' = "single_read"
                 /\ err' = err
            ELSE /\ pos' = pos
                 /\ pc' = "failed"
                 /\ err' = "NoDirectAccess"
    /\ UNCHANGED <<stream, metadata, alignment, current_line, next_line, aln, loc,
                   out, hist>>
    /\ UNCHANGED otherVars

\* file.goto('A', idx + 1) on a file whose binary index does not match its
\* records: the jump succeeds and lands before an arbitrary line (or at the
\* end), with the field buffer holding values of its own.
StaleFields == { <<0, 0, 0, 0, 0, 0>>, <<1, 5, 9, 1, 10, 40>> }
single_goto_stale ==
    /\ pc = "single_goto"
    /\ index' = "stale"
    /\ \E p \in 0..Len(stream) : pos' = p
    /\ stale_field' \in StaleFields
    /\ pc' = "single_read"
    /\ UNCHANGED <<stream, metadata, alignment, current_line, next_line, aln, loc,
                   out, hist, err>>
    /\ UNCHANGED <<metaVars, pathVars, spacingVars, mainVars, pafVars, countVars>>

\* file.read_line() on the line jumped to, then the call of parse_alignment.
single_read ==
    /\ pc = "single_read"
    /\ pos' = read_line(pos)
    /\ pc' = "parse_begin"
    /\ UNCHANGED <<stream, metadata, alignment, index, current_line, next_line, aln,
                   loc, out, hist, err>>
    /\ UNCHANGED otherVars

\* parse_alignment returned Ok: print_alignment and return.
single_print ==
    /\ pc = "print"
    /\ alignment # NoneIdx
    /\ out' = Append(out, aln)
    /\ hist' = Append(hist, [src |-> loc.src, at |-> pos])
    /\ pc' = "done"
    /\ UNCHANGED <<stream, metadata, alignment, index, pos, current_line, next_line,
                   aln, loc, err>>
    /\ UNCHANGED otherVars

\* ------------------------------------------------------------- specification
Next ==
    \/ main
    \/ all_open
    \/ all_loop
    \/ all_print
    \/ single_goto
    \/ single_read
    \/ single_print
    \/ parse_alignment_begin
    \/ parse_alignment_loop
    \/ parse_alignment_end

Spec == Init /\ [][Next]_vars

\* The readers on files whose binary index may be stale.
NextJump == Next \/ single_goto_stale
SpecJump == Init /\ [][NextJump]_vars

\* ------------------------------------------------------------- what the stream says
\* The boundaries of a unit's run: the next primary record, a group marker
\* or the end of the stream.
GroupMarkers == {"a", "g", "S", "^"}
Boundary(t) == t = "A" \/ t = "EOF" \/ t \in GroupMarkers

\* The first boundary after primary line p, and the lines of p's run.
RunEnd(p) ==
    CHOOSE j \in (p + 1)..(Len(stream) + 1) :
        /\ Boundary(TypeAt(j))
        /\ \A i \in (p + 1)..(j - 1) : ~Boundary(TypeAt(i))
RunOf(p) == (p + 1)..(RunEnd(p) - 1)

HasType(S, t) == \E j \in S : TypeAt(j) = t
LastOf(S, t) == CHOOSE j \in S : TypeAt(j) = t /\ \A i \in S : TypeAt(i) = t => i <= j

\* The unit opened on primary line p with the attribute records among the
\* lines S applied: the last record of each kind decides, all others are ignored.
Opened(p, S) ==
    [new_alignment(p) EXCEPT
        !.strand = IF HasType(S, "R") THEN "-" ELSE "+",
        !.differences = IF HasType(S, "D") THEN stream[LastOf(S, "D")].i[1] ELSE 0,
        !.tracepoints = IF HasType(S, "T") THEN stream[LastOf(S, "T")].l ELSE <<>>,
        !.trace_diffs = IF HasType(S, "X") THEN stream[LastOf(S, "X")].l ELSE <<>>]

Resolves(p) == lookup_error(file_int(p, 0), file_int(p, 3)) = ""

\* The unit of primary line p, normalised, and whether its normalisation can
\* succeed (the release profile) or can fail (either profile).
ExpectedUnit(p) == normalize(Opened(p, RunOf(p)), new_locals(p), FALSE).aln
CanEmit(p) ==
    Resolves(p) /\ normalize(Opened(p, RunOf(p)), new_locals(p), FALSE).status = "ok"
CanFail(p) ==
    Resolves(p) => \E c \in BOOLEAN :
        normalize(Opened(p, RunOf(p)), new_locals(p), c).status # "ok"

FullScan == alignment = NoneIdx
Ended == pc \in {"done", "failed"}

\* ------------------------------------------------------------- C1
\* C1: in a full forward scan a unit is handed to the formatter only when the
\* reader stands on the first boundary record (next primary record, group
\* marker or end-of-stream) after the unit's primary record, so that every
\* line of its run, attribute records included, has been read.
C1_EmittedOnlyAfterBoundary ==
    FullScan =>
        /\ Len(hist) = Len(out)
        /\ \A k \in 1..Len(hist) :
            /\ hist[k].src \in APositions
            /\ hist[k].at = RunEnd(hist[k].src)
            /\ \A j \in RunOf(hist[k].src) : j < hist[k].at

C1_Witness ==
    /\ FullScan
    /\ Len(out) >= 1
    /\ \E j \in RunOf(hist[1].src) : TypeAt(j) \in {"R", "D", "T", "X"}
    /\ \E j \in RunOf(hist[1].src) : TypeAt(j) = "Q"

AllIdsResolve == \A p \in APositions : Resolves(p)
C3_OtherRecordsIgnored ==
    /\ pc = "parse_loop" =>
        /\ loc.src \in APositions
        /\ pos < RunEnd(loc.src)
        /\ aln = Opened(loc.src, (loc.src + 1)..pos)
        /\ loc = new_locals(loc.src)
    /\ pc = "parse_end" =>
        /\ pos = RunEnd(loc.src)
        /\ aln = Opened(loc.src, RunOf(loc.src))

C3_Witness ==
    /\ pc = "parse_loop"
    /\ pos = loc.src + 2
    /\ TypeAt(loc.src + 1) = "Q"
    /\ TypeAt(pos) = "D"
    /\ aln.differences = 3

\* ------------------------------------------------------------- C4
RECURSIVE FoldLines(_, _)
FoldLines(a, recs) ==
    IF recs = <<>> THEN a ELSE FoldLines(match_line(a, Head(recs)), Tail(recs))

Orderings(n) ==
    { f \in [1..n -> 1..n] : \A i, j \in 1..n : f[i] = f[j] => i = j }

\* The records of p's run, in stream order.
RunRecords(p) == [i \in 1..(RunEnd(p) - 1 - p) |-> stream[p + i]]

\* At most one record of each attribute kind.
FixedSet(p) ==
    \A t \in {"R", "D", "T", "X"} : Cardinality({ j \in RunOf(p) : TypeAt(j) = t }) <= 1

\* C4: the emitted unit is the one obtained from every permutation of the
\* records of its run (one record at most of each attribute kind): strand,
\* differences, tracepoints, trace_diffs and the four normalised coordinates
\* do not depend on the order of arrival.
C4_OrderOfAttributesIrrelevant ==
    \A k \in 1..Len(out) :
        LET p == hist[k].src
            recs == RunRecords(p)
        IN FixedSet(p) =>
            \A f \in Orderings(Len(recs)) :
                out[k] = normalize(FoldLines(new_alignment(p),
                                             [i \in 1..Len(recs) |-> recs[f[i]]]),
                                   new_locals(p), FALSE).aln

C4_Witness ==
    /\ Len(out) >= 1
    /\ hist[1].src = 1
    /\ Len(stream) = 3
    /\ TypeAt(2) = "X" /\ TypeAt(3) = "R"
    /\ out[1].strand = "-"
    /\ out[1].trace_diffs = <<7>>
    /\ out[1].target_start = 960
    /\ out[1].target_end = 990

\* ------------------------------------------------------------- C5
SingleRequest == alignment # NoneIdx
LookupErrors ==
    {"QueryNameNotFound", "TargetNameNotFound", "QueryLengthNotFound",
     "TargetLengthNotFound", "QueryOffsetNotFound", "TargetOffsetNotFound"}

NameOrUnknown(names, id) == IF id \in DOMAIN names THEN names[id] ELSE "unknown"

\* C6 as stated: a unit whose query or target id lacks a catalog entry is
\* still emitted and the run goes on: no run ends on a missing entry, a full
\* forward scan that ends has emitted a unit for every primary record, and a
\* missing name is rendered as "unknown".
C6_MissingEntryStillEmitted ==
    /\ err \notin LookupErrors
    /\ (FullScan /\ pc = "done") => Len(out) = NumA
    /\ \A k \in 1..Len(out) :
        /\ out[k].query_name =
             NameOrUnknown(metadata.query_seq_names, file_int(hist[k].src, 0))
        /\ out[k].target_name =
             NameOrUnknown(metadata.target_seq_names, file_int(hist[k].src, 3))

\* ------------------------------------------------------------- C7
\* The exact (unbounded-integer) coordinates of the unit of primary line p.
Reversed(p) == HasType(RunOf(p), "R")
QueryOffset(p) == metadata.query_contig_offsets[file_int(p, 0)][1]
TargetOffset(p) == metadata.target_contig_offsets[file_int(p, 3)][1]
ContigLength(p) == metadata.target_contig_offsets[file_int(p, 3)][2]
ExactTargetStart(p) ==
    IF Reversed(p) THEN ContigLength(p) - file_int(p, 5) ELSE file_int(p, 4)
ExactTargetEnd(p) ==
    IF Reversed(p) THEN ContigLength(p) - file_int(p, 4) ELSE file_int(p, 5)

\* C7 as stated: every emitted unit has query_start/end = query offset + raw
\* start/end, and target_start/end = target offset + raw start/end without a
\* reverse marker in its run, target offset + (contig length - raw end) and
\* target offset + (contig length - raw start) with one.
C7_NormalizedCoordinates ==
    \A k \in 1..Len(out) :
        LET p == hist[k].src
        IN /\ out[k].query_start = QueryOffset(p) + file_int(p, 1)
           /\ out[k].query_end = QueryOffset(p) + file_int(p, 2)
           /\ out[k].target_start = TargetOffset(p) + ExactTargetStart(p)
           /\ out[k].target_end = TargetOffset(p) + ExactTargetEnd(p)

\* ------------------------------------------------------------- C8
\* C8 as stated: no unit is emitted whose normalisation (the reverse flip,
\* then the offset addition) leaves the word's range at any step, and the
\* coordinates of an emitted unit are in range.
C8_NoWrappedCoordinateEmitted ==
    \A k \in 1..Len(out) :
        LET p == hist[k].src
        IN /\ InRange(ExactTargetStart(p)) /\ InRange(ExactTargetEnd(p))
           /\ InRange(QueryOffset(p) + file_int(p, 1))
           /\ InRange(QueryOffset(p) + file_int(p, 2))
           /\ InRange(TargetOffset(p) + ExactTargetStart(p))
           /\ InRange(TargetOffset(p) + ExactTargetEnd(p))
           /\ InRange(out[k].query_start) /\ InRange(out[k].query_end)
           /\ InRange(out[k].target_start) /\ InRange(out[k].target_end)

C10_OutOfRangeFails ==
    (SingleRequest /\ alignment >= NumA) =>
        /\ out = <<>>
        /\ pos = 0
        /\ pc \in {"main", "single_goto", "failed"}
        /\ pc = "failed" => err = "NoDirectAccess"

C10_Witness ==
    /\ SingleRequest
    /\ index = "present"
    /\ NumA = 3
    /\ alignment = 3
    /\ pc = "failed"
    /\ err = "NoDirectAccess"

\* ------------------------------------------------------------- C11
\* C11: in single-alignment retrieval no unit is assembled or emitted from a
\* line that is not a primary record: when the line read after the jump is of
\* another type, or the end of the stream, the run fails instead.
C11_PrimaryRequiredAfterJump ==
    SingleRequest =>
        /\ pc \in {"parse_loop", "parse_end", "print"} => TypeAt(loc.src) = "A"
        /\ \A k \in 1..Len(hist) : TypeAt(hist[k].src) = "A"
        /\ pc # "done"  \/ Len(out) = 1

\* ------------------------------------------------------------- get_file_metadata: references
MaxRefs == 2

\* A genome database as read_gdb_metadata returns it: names, lengths and
\* contig offsets by sequence id.
Database(n, l, o) == [names |-> n, lengths |-> l, offsets |-> o]
EmptyDatabase == Database(Tbl({}, QNames), Tbl({}, QLens), Tbl({}, QOffs))
IsEmpty(table) == DOMAIN table = {}

Databases ==
    { Database(QNames, QLens, QOffs),
      Database(TNames, TLens, TOffs),
      Database(Tbl({1}, TNames), Tbl({1}, TLens), Tbl({1}, TOffsShift)),
      EmptyDatabase }

\* The catalog embedded in the alignment file, empty when there is none.
EmbeddedCatalogs == { Database(TNames, TLens, TOffsShift), EmptyDatabase }

\* A declared reference: its path and role marker, whether one of the
\* candidate paths exists, and what read_gdb_metadata makes of the path
\* chosen (load, and the database when it loads).  A path that does not
\* exist does not load.
DeclaredReferences ==
    { r \in [ref_path : {"", "ref"}, ref_count : 0..3, found : BOOLEAN,
             load : BOOLEAN, db : Databases] :
        /\ r.ref_path = "" => ~r.found
        /\ ~r.found => ~r.load
        /\ ~r.load => r.db = EmptyDatabase }

ReferenceLists == UNION { [1..n -> DeclaredReferences] : n \in 0..MaxRefs }

\* The state after the declarations of get_file_metadata (lines 103-127).
InitMeta ==
    /\ references \in ReferenceLists
    /\ embedded \in EmbeddedCatalogs
    /\ ref_idx = 0
    /\ query_tables = EmptyDatabase
    /\ target_tables = EmptyDatabase
    /\ has_external_query = FALSE
    /\ has_external_target = FALSE
    /\ messages = <<>>
    /\ mpc = "references"

Message(ref, text) == [ref |-> ref, text |-> text]

\* The references the loop skips: an empty path, or a marker above 2.
skip_reference(r) == r.ref_path = "" \/ r.ref_count > 2

\* One iteration of the loop over the references.
meta_reference ==
    /\ mpc = "references"
    /\ ref_idx < Len(references)
    /\ LET r == references[ref_idx + 1]
           n == ref_idx + 1
           is_query == r.ref_count = 1
           is_target == r.ref_count = 2
           searched ==
               <<Message(n, "Processing reference")>> \o
               (IF r.found THEN <<>>
                ELSE <<Message(n, "Warning: Could not find query GDB file")>>)
       IN  IF skip_reference(r)
           THEN UNCHANGED <<query_tables, target_tables, has_external_query,
                            has_external_target, messages>>
           ELSE IF r.load /\ is_query
           THEN /\ query_tables' = r.db
                /\ has_external_query' = TRUE
                /\ messages' = messages \o searched \o
                               <<Message(n, "Loaded query genome metadata")>>
                /\ UNCHANGED <<target_tables, has_external_target>>
           ELSE IF r.load /\ is_target
           THEN /\ target_tables' = r.db
                /\ has_external_target' = TRUE
                /\ messages' = messages \o searched \o
                               <<Message(n, "Loaded target genome metadata")>>
                /\ UNCHANGED <<query_tables, has_external_query>>
           ELSE IF r.load
           THEN /\ messages' = messages \o searched
                /\ UNCHANGED <<query_tables, target_tables, has_external_query,
                               has_external_target>>
           ELSE /\ messages' = messages \o searched \o
                               <<Message(n, "Warning: Failed to load GDB metadata")>>
                /\ UNCHANGED <<query_tables, target_tables, has_external_query,
                               has_external_target>>
    /\ ref_idx' = ref_idx + 1
    /\ UNCHANGED <<references, embedded, mpc>>
    /\ UNCHANGED <<readerVars, stale_field, countVars, pathVars, spacingVars, mainVars, pafVars>>

\* "If we didn't load external target, use embedded skeleton".
use_embedded_always(has_target, emb) == ~IsEmpty(emb.names)
use_embedded(has_target, emb) == ~has_target /\ ~IsEmpty(emb.names)

\* "If this is a self-alignment (no external query), use target for query too".
self_alignment_inverted(has_query, target) == has_query /\ ~IsEmpty(target.names)
self_alignment(has_query, target) == ~has_query /\ ~IsEmpty(target.names)

\* Lines 270-288: the embedded fallback, the self-alignment copy and the
\* warning about empty catalogs.
meta_fallbacks ==
    /\ mpc = "references"
    /\ ref_idx = Len(references)
    /\ LET target == IF use_embedded(has_external_target, embedded)
                     THEN embedded ELSE target_tables
           self == self_alignment(has_external_query, target)
           query == IF self THEN target ELSE query_tables
       IN  /\ target_tables' = target
           /\ query_tables' = query
           /\ messages' = messages \o
                (IF use_embedded(has_external_target, embedded)
                 THEN <<Message(0, "Using embedded skeleton for target genome")>>
                 ELSE <<>>) \o
                (IF self THEN <<Message(0, "Self-alignment detected")>> ELSE <<>>) \o
                (IF IsEmpty(query.names) /\ IsEmpty(target.names)
                 THEN <<Message(0, "Warning: No sequence metadata found")>>
                 ELSE <<>>)
    /\ mpc' = "done"
    /\ UNCHANGED <<references, embedded, ref_idx, has_external_query, has_external_target>>
    /\ UNCHANGED <<readerVars, stale_field, countVars, pathVars, spacingVars, mainVars, pafVars>>

NextMeta == meta_reference \/ meta_fallbacks

\* The readers, at rest.
IdleReaders ==
    /\ metadata = 0 /\ alignment = NoneIdx /\ index = "unknown"
    /\ pc = "idle" /\ pos = 0 /\ current_line = "" /\ next_line = ""
    /\ aln = EmptyAln /\ loc = EmptyLoc /\ out = <<>> /\ hist = <<>> /\ err = ""

InitMetaOnly ==
    /\ InitMeta /\ IdleJump /\ IdlePath /\ IdleSpacing /\ IdleMain /\ IdlePaf /\ IdleCount
    /\ IdleReaders /\ stream = <<>>

SpecMeta == InitMetaOnly /\ [][NextMeta]_vars

\* ------------------------------------------------------------- what the declarations say
\* Reference i was loaded in role k.
Loaded(i, k) ==
    LET r == references[i] IN r.ref_path # "" /\ r.ref_count = k /\ r.load
RoleLoaded(k) == \E i \in 1..Len(references) : Loaded(i, k)

\* Reference i was processed and did not resolve: no candidate path exists,
\* or the database does not load.
Unresolved(i) ==
    LET r == references[i] IN r.ref_path # "" /\ r.ref_count <= 2 /\ ~r.load

WarningTexts ==
    { "Warning: Could not find query GDB file", "Warning: Failed to load GDB metadata" }
Warnings(i) ==
    { k \in 1..Len(messages) : messages[k].ref = i /\ messages[k].text \in WarningTexts }

\* ------------------------------------------------------------- C12
\* C12: after metadata resolution, when no role-1 reference was loaded, the
\* query catalog equals the target catalog in all three tables, whether the
\* target catalog is external, embedded or empty.
C12_SelfAlignmentCopiesTarget ==
    mpc = "done" /\ ~RoleLoaded(1) => query_tables = target_tables

\* A role-1 reference was declared and did not load, a role-2 reference did.
C12_Witness ==
    /\ mpc = "done"
    /\ ~RoleLoaded(1)
    /\ \E i \in 1..Len(references) : references[i].ref_count = 1 /\ Unresolved(i)
    /\ RoleLoaded(2)
    /\ ~IsEmpty(query_tables.names)

\* ------------------------------------------------------------- C13
\* C13: after metadata resolution the target catalog is the database of a
\* loaded role-2 reference if there is one, otherwise the embedded catalog if
\* present, otherwise empty; processing a role-1 reference leaves the target
\* catalog alone, and processing a reference of another role leaves both.
C13_TargetPrecedence ==
    /\ [](mpc = "done" =>
            IF RoleLoaded(2)
            THEN \E i \in 1..Len(references) :
                     Loaded(i, 2) /\ target_tables = references[i].db
            ELSE IF ~IsEmpty(embedded.names)
            THEN target_tables = embedded
            ELSE target_tables = EmptyDatabase)
    /\ [][meta_reference =>
            LET r == references[ref_idx + 1]
            IN  /\ r.ref_count = 1 => target_tables' = target_tables
                /\ r.ref_count \notin {1, 2} =>
                       /\ target_tables' = target_tables
                       /\ query_tables' = query_tables]_vars

\* Both roles were loaded from references while the file embeds a catalog.
C13_Witness ==
    /\ mpc = "done"
    /\ RoleLoaded(1)
    /\ RoleLoaded(2)
    /\ ~IsEmpty(embedded.names)

\* ------------------------------------------------------------- C15
\* C15: an unresolved reference does not stop metadata resolution: processing
\* it leaves both catalogs as they were, every later reference that is not
\* skipped is still processed, and exactly one warning is written for it.
C15_OneWarningPerUnresolved ==
    /\ [](mpc = "done" =>
            \A i \in 1..Len(references) :
                /\ Unresolved(i) => Cardinality(Warnings(i)) = 1
                /\ ~skip_reference(references[i]) =>
                       \E k \in 1..Len(messages) :
                           messages[k] = Message(i, "Processing reference"))
    /\ [][meta_reference /\ Unresolved(ref_idx + 1) =>
            /\ target_tables' = target_tables
            /\ query_tables' = query_tables]_vars

\* ------------------------------------------------------------- get_file_metadata: the path search
\* A path is the sequence of its pieces, so that ends_with and the removal of
\* a suffix work on what the path ends with: "g.fa.gz" is <<"g", ".fa", ".gz">>.
ReferencePaths ==
    { <<"g">>, <<"g", ".fa">>, <<"g", ".fasta", ".gz">>, <<"g", ".gz">>, <<"g", ".1gdb">> }

\* The alignment file's directory: "" for a bare file name.
Directories == {"", "d"}

ends_with(path, ext) ==
    /\ Len(path) >= Len(ext)
    /\ SubSeq(path, Len(path) - Len(ext) + 1, Len(path)) = ext

FastaExtensions ==
    << <<".fasta", ".gz">>, <<".fa", ".gz">>, <<".fna", ".gz">>,
       <<".fasta">>, <<".fa">>, <<".fna">> >>

\* strip_fasta_ext: the path without the first of the extensions it ends with.
strip_fasta_ext(path) ==
    LET hits == { k \in 1..Len(FastaExtensions) : ends_with(path, FastaExtensions[k]) }
    IN  IF hits = {} THEN path
        ELSE LET k == CHOOSE h \in hits : \A j \in hits : h <= j
             IN  SubSeq(path, 1, Len(path) - Len(FastaExtensions[k]))

\* aln_dir.join(path), for a relative path.
join(dir, path) == IF dir = "" THEN path ELSE <<dir, "/">> \o path

\* The extensions strategies 2 to 5 try, in order.
gdb_extensions_swapped == <<".gdb", ".1gdb">>
gdb_extensions == <<".1gdb", ".gdb">>

\* The Option<String>: <<>> is None, <<p>> is Some(p).
is_none(option) == option = <<>>

\* "for ext in .. { if exists { gdb_path = Some(..); break; } }" over the
\* paths tried, in order.
first_existing(tried) ==
    LET hits == { k \in 1..Len(tried) : tried[k] \in existing }
    IN  IF hits = {} THEN <<>>
        ELSE << tried[CHOOSE h \in hits : \A j \in hits : h <= j] >>

with_extensions(path) == [k \in 1..Len(gdb_extensions) |-> path \o <<gdb_extensions[k]>>]
relative_with_extensions(path) ==
    [k \in 1..Len(gdb_extensions) |-> join(aln_dir, path \o <<gdb_extensions[k]>>)]

\* Everything the six strategies can look at.
AllCandidates(path, dir) ==
    { path, join(dir, path) } \cup
    { base \o <<ext>> : base \in {path, strip_fasta_ext(path)}, ext \in {".1gdb", ".gdb"} } \cup
    { join(dir, base \o <<ext>>) :
        base \in {path, strip_fasta_ext(path)}, ext \in {".1gdb", ".gdb"} }

InitPath ==
    /\ query_path \in ReferencePaths
    /\ aln_dir \in Directories
    /\ existing \in SUBSET AllCandidates(query_path, aln_dir)
    /\ gdb_path = <<>>
    /\ ppc = "strategy1"

PathStep(from, to, found) ==
    /\ ppc = from
    /\ gdb_path' = IF is_none(gdb_path) THEN found ELSE gdb_path
    /\ ppc' = to
    /\ UNCHANGED <<query_path, aln_dir, existing>>
    /\ UNCHANGED <<readerVars, stale_field, countVars, metaVars, spacingVars, mainVars, pafVars>>

\* Strategy 1: the path as it is.
strategy1 == PathStep("strategy1", "strategy2", first_existing(<<query_path>>))

\* Strategy 2: the path with .1gdb or .gdb added.
strategy2 == PathStep("strategy2", "strategy3", first_existing(with_extensions(query_path)))

\* Strategy 3: the fasta extension replaced, when the path has one.
strategy3 ==
    PathStep("strategy3", "strategy4",
             LET base_path == strip_fasta_ext(query_path)
             IN  IF base_path # query_path
                 THEN first_existing(with_extensions(base_path)) ELSE <<>>)

\* Strategy 4: the same in the alignment file's directory.
strategy4 ==
    PathStep("strategy4", "strategy5",
             LET base_path == strip_fasta_ext(query_path)
             IN  IF base_path # query_path
                 THEN first_existing(relative_with_extensions(base_path)) ELSE <<>>)

\* Strategy 5: the path with .1gdb or .gdb added, in the alignment file's
\* directory.
strategy5 ==
    PathStep("strategy5", "strategy6",
             first_existing(relative_with_extensions(query_path)))

\* Strategy 6: the path as it is, in the alignment file's directory.
strategy6 ==
    PathStep("strategy6", "searched", first_existing(<<join(aln_dir, query_path)>>))

NextPath == strategy1 \/ strategy2 \/ strategy3 \/ strategy4 \/ strategy5 \/ strategy6

InitPathOnly ==
    /\ InitPath /\ IdleJump /\ IdleMeta /\ IdleSpacing /\ IdleMain /\ IdlePaf /\ IdleCount
    /\ IdleReaders /\ stream = <<>>

SpecPath == InitPathOnly /\ [][NextPath]_vars

\* ------------------------------------------------------------- C14
\* The candidates in the order the specification gives them; the two
\* stripped forms only when the path ends with a fasta extension.
HasFastaSuffix(path) ==
    \E e \in { <<".fasta", ".gz">>, <<".fa", ".gz">>, <<".fna", ".gz">>,
               <<".fasta">>, <<".fa">>, <<".fna">> } : ends_with(path, e)

Stripped(path) ==
    LET e == CHOOSE x \in { <<".fasta", ".gz">>, <<".fa", ".gz">>, <<".fna", ".gz">>,
                            <<".fasta">>, <<".fa">>, <<".fna">> } : ends_with(path, x)
    IN  SubSeq(path, 1, Len(path) - Len(e))

InDir(path) == IF aln_dir = "" THEN path ELSE <<aln_dir, "/">> \o path

CandidateOrder ==
    LET P == query_path
    IN  <<P, P \o <<".1gdb">>, P \o <<".gdb">>>> \o
        (IF HasFastaSuffix(P)
         THEN <<Stripped(P) \o <<".1gdb">>, Stripped(P) \o <<".gdb">>,
                InDir(Stripped(P) \o <<".1gdb">>), InDir(Stripped(P) \o <<".gdb">>)>>
         ELSE <<>>) \o
        <<InDir(P \o <<".1gdb">>), InDir(P \o <<".gdb">>), InDir(P)>>

\* C14: the database path chosen is the first existing candidate of the
\* order P, P.1gdb, P.gdb, strip(P).1gdb, strip(P).gdb, dir/strip(P).1gdb,
\* dir/strip(P).gdb, dir/P.1gdb, dir/P.gdb, dir/P; none is chosen when none
\* exists.
C14_FirstExistingCandidate ==
    ppc = "searched" =>
        IF \E k \in 1..Len(CandidateOrder) : CandidateOrder[k] \in existing
        THEN \E k \in 1..Len(CandidateOrder) :
                 /\ gdb_path = <<CandidateOrder[k]>>
                 /\ CandidateOrder[k] \in existing
                 /\ \A j \in 1..(k - 1) : CandidateOrder[j] \notin existing
        ELSE gdb_path = <<>>

\* A stripped candidate in the directory is chosen while the as-given path
\* exists there too, and nothing earlier exists.
C14_Witness ==
    /\ ppc = "searched"
    /\ aln_dir = "d"
    /\ query_path = <<"g", ".fa">>
    /\ gdb_path = << <<"d", "/", "g", ".gdb">> >>
    /\ <<"d", "/", "g", ".fa">> \in existing

\* ------------------------------------------------------------- get_file_metadata: trace spacing
DefaultTraceSpacing == 100

\* Streams with spacing records; the accessors called before the scan
\* (get_references, get_all_sequence_names, ..) leave the reader before the
\* first line.
SpacingRecords ==
    { Rec("t", <<50>>, <<>>),
      Rec("t", <<7>>, <<>>),
      Rec("A", <<1, 5, 9, 1, 10, 40>>, <<>>),
      Rec("g", <<>>, <<>>),
      Rec("D", <<3>>, <<>>) }

SpacingStreams == UNION { [1..n -> SpacingRecords] : n \in 0..MaxLen }

\* "let mut trace_spacing = 100; // default"
InitSpacing ==
    /\ stream \in SpacingStreams
    /\ trace_spacing = DefaultTraceSpacing
    /\ spos = 0
    /\ spc = "scan"

\* The lines that end the scan without a spacing: 'A' | '\0'.
is_scan_end_eof(t) == t = "EOF"
is_scan_end(t) == t = "A" \/ t = "EOF"

\* One iteration of the loop of lines 301-307.
spacing_read ==
    /\ spc = "scan"
    /\ LET p == read_line(spos)
           t == TypeAt(p)
       IN  /\ spos' = p
           /\ trace_spacing' = IF t = "t" THEN file_int(p, 0) ELSE trace_spacing
           /\ spc' = IF t = "t" \/ is_scan_end(t) THEN "done" ELSE "scan"
    /\ UNCHANGED <<readerVars, stale_field, countVars, metaVars, pathVars, mainVars, pafVars>>

NextSpacing == spacing_read

InitSpacingOnly ==
    /\ InitSpacing /\ IdleJump /\ IdleMeta /\ IdlePath /\ IdleMain /\ IdlePaf /\ IdleCount
    /\ IdleReaders

SpecSpacing == InitSpacingOnly /\ [][NextSpacing]_vars

\* ------------------------------------------------------------- C16
\* The spacing records before the first primary record.
FirstPrimary ==
    IF APositions = {} THEN Len(stream) + 1
    ELSE CHOOSE p \in APositions : \A q \in APositions : p <= q
SpacingBeforePrimary == { p \in 1..(FirstPrimary - 1) : stream[p].t = "t" }

\* C16: the trace spacing returned is the value of the first 't' record
\* before the first primary record, and 100 when there is none before the
\* first primary record or the end of the stream; a 't' record after the
\* first primary record does not change it.
C16_TraceSpacing ==
    spc = "done" =>
        trace_spacing =
            IF SpacingBeforePrimary = {} THEN 100
            ELSE stream[CHOOSE p \in SpacingBeforePrimary :
                            \A q \in SpacingBeforePrimary : p <= q].i[1]

\* The default is kept although a spacing record follows the first primary
\* record.
C16_Witness ==
    /\ spc = "done"
    /\ SpacingBeforePrimary = {}
    /\ \E p \in 1..Len(stream) : stream[p].t = "t"
    /\ trace_spacing = 100

\* ------------------------------------------------------------- main: what is written where
MaxUnits == 2

\* The command line: --metadata, --paf and --alignment.
Arguments == [metadata : BOOLEAN, paf : BOOLEAN, alignment : {NoneIdx, 0, 1}]

\* What main's output depends on in the input file: the number of primary
\* records, the ordinal of the first one parse_alignment fails on (0 if
\* none), the number of references get_file_metadata processes, whether any
\* catalog was found, and whether the file has a binary index.
Inputs ==
    [units : 0..MaxUnits, bad : 0..MaxUnits, references : 0..1,
     catalogs : BOOLEAN, has_index : BOOLEAN]

InitMain ==
    /\ args \in Arguments
    /\ input \in { f \in Inputs : f.bad <= f.units }
    /\ stdout = <<>>
    /\ stderr = <<>>
    /\ opened = FALSE
    /\ gpc = "main"

\* n copies of a line.
Lines(n, line) == [k \in 1..n |-> line]

\* "if args.metadata && args.paf"
conflicting_without_alignment(a) == a.metadata /\ a.paf /\ a.alignment = NoneIdx
conflicting(a) == a.metadata /\ a.paf

\* Lines 44-48: the check of the flags.
main_flags ==
    /\ gpc = "main"
    /\ IF conflicting(args)
       THEN /\ gpc' = "error"
            /\ stderr' = stderr \o <<"Error: Cannot combine --metadata with --paf output">>
       ELSE /\ gpc' = "get_file_metadata"
            /\ UNCHANGED stderr
    /\ UNCHANGED <<args, input, stdout, opened>>
    /\ UNCHANGED <<readerVars, stale_field, countVars, metaVars, pathVars, spacingVars, pafVars>>

\* Line 56, and the match of lines 58-86 on what comes next.
main_get_file_metadata ==
    /\ gpc = "get_file_metadata"
    /\ opened' = TRUE
    /\ stderr' = stderr \o Lines(input.references, "Processing reference") \o
                 (IF input.catalogs THEN <<>>
                  ELSE <<"Warning: No sequence metadata found">>)
    /\ gpc' = IF args.metadata THEN "print_metadata"
              ELSE IF args.alignment # NoneIdx THEN "read_single_alignment"
              ELSE IF ~args.paf THEN "print_metadata"
              ELSE "read_all_alignments"
    /\ UNCHANGED <<args, input, stdout>>
    /\ UNCHANGED <<readerVars, stale_field, countVars, metaVars, pathVars, spacingVars, pafVars>>

\* print_metadata: every write goes to the locked stdout handle.
print_metadata ==
    /\ gpc = "print_metadata"
    /\ stdout' = stdout \o
                 <<"=== METADATA ===", "Counting alignments...", "Total alignments">>
    /\ gpc' = IF args.metadata THEN "done" ELSE "header"
    /\ UNCHANGED <<args, input, stderr, opened>>
    /\ UNCHANGED <<readerVars, stale_field, countVars, metaVars, pathVars, spacingVars, pafVars>>

\* Line 77.
main_header ==
    /\ gpc = "header"
    /\ stdout' = stdout \o <<"=== ALIGNMENTS ===">>
    /\ gpc' = "read_all_alignments"
    /\ UNCHANGED <<args, input, stderr, opened>>
    /\ UNCHANGED <<readerVars, stale_field, countVars, metaVars, pathVars, spacingVars, pafVars>>

\* print_alignment: one human block or one PAF line per unit.
unit_output(a) == IF a.paf THEN "PAF line" ELSE "human block"

\* read_single_alignment, as far as the two streams show.
read_single_alignment ==
    /\ gpc = "read_single_alignment"
    /\ IF ~(input.has_index /\ args.alignment + 1 <= input.units)
       THEN /\ gpc' = "error"
            /\ stderr' = stderr \o <<"Error: Failed to seek to alignment">>
            /\ UNCHANGED stdout
       ELSE IF input.bad = args.alignment + 1
       THEN /\ gpc' = "error"
            /\ stderr' = stderr \o <<"Using O(1) binary index", "Error: parse_alignment">>
            /\ UNCHANGED stdout
       ELSE /\ gpc' = "done"
            /\ stderr' = stderr \o <<"Using O(1) binary index">>
            /\ stdout' = stdout \o <<unit_output(args)>>
    /\ UNCHANGED <<args, input, opened>>
    /\ UNCHANGED <<readerVars, stale_field, countVars, metaVars, pathVars, spacingVars, pafVars>>

\* read_all_alignments, as far as the two streams show: the units before
\* the first one parse_alignment fails on.
read_all_alignments ==
    /\ gpc = "read_all_alignments"
    /\ IF input.bad = 0
       THEN /\ stdout' = stdout \o Lines(input.units, unit_output(args))
            /\ gpc' = "done"
            /\ UNCHANGED stderr
       ELSE /\ stdout' = stdout \o Lines(input.bad - 1, unit_output(args))
            /\ gpc' = "error"
            /\ stderr' = stderr \o <<"Error: parse_alignment">>
    /\ UNCHANGED <<args, input, opened>>
    /\ UNCHANGED <<readerVars, stale_field, countVars, metaVars, pathVars, spacingVars, pafVars>>

NextMain ==
    \/ main_flags
    \/ main_get_file_metadata
    \/ print_metadata
    \/ main_header
    \/ read_single_alignment
    \/ read_all_alignments

InitMainOnly ==
    /\ InitMain /\ IdleJump /\ IdleMeta /\ IdlePath /\ IdleSpacing /\ IdlePaf /\ IdleCount
    /\ IdleReaders /\ stream = <<>>

SpecMain == InitMainOnly /\ [][NextMain]_vars

\* ------------------------------------------------------------- C17
\* The progress and diagnostic messages.
ProgressMessages ==
    { "Processing reference", "Warning: No sequence metadata found",
      "Counting alignments...", "Using O(1) binary index" }

\* C17: nothing written to standard output is a progress or diagnostic
\* message, in any mode, and with --paf standard output holds PAF lines only.
C17_StdoutIsDataOnly ==
    \A k \in 1..Len(stdout) :
        /\ stdout[k] \notin ProgressMessages
        /\ args.paf => stdout[k] = "PAF line"

\* ------------------------------------------------------------- C18
\* C18: with --metadata and --paf together the run ends with an error
\* before the input is opened and before anything is written to standard
\* output, whatever --alignment and the input are.
C18_ConflictingFlagsFailFirst ==
    args.metadata /\ args.paf =>
        /\ ~opened
        /\ stdout = <<>>
        /\ gpc \in {"main", "error"}

\* The run has ended on the conflict, with --alignment given and an input
\* that holds units.
C18_Witness ==
    /\ args.metadata /\ args.paf /\ args.alignment # NoneIdx
    /\ input.units > 0
    /\ gpc = "error"

\* ------------------------------------------------------------- print_alignment_paf
MaxList == 2

\* Coordinates and differences far inside the i64 range, ends before and
\* after starts, differences below and above the block length.
Coordinates == {0, 4, 9}
Differences == {0 - 1, 0, 3, 30}
TraceLists(values) == UNION { [1..n -> values] : n \in 0..MaxList }

InitPaf ==
    /\ paf_aln \in [query_start : Coordinates, query_end : Coordinates,
                    target_start : Coordinates, target_end : Coordinates,
                    differences : Differences,
                    tracepoints : TraceLists({10, 20}),
                    trace_diffs : TraceLists({1, 2})]
    /\ paf_line = <<>>

\* i64 `/`: the quotient rounded towards zero.
rust_div(a, b) == IF a >= 0 THEN a \div b ELSE 0 - ((0 - a) \div b)

\* i64::max(0).
max0(x) == IF x >= 0 THEN x ELSE 0

\* "(end - start).max(0)"
span_unfloored(end, start) == end - start
span(end, start) == max0(end - start)

\* "((block_length - aln.differences) / 2).max(0)"
paf_matches(block_length, differences) == max0(rust_div(block_length - differences, 2))

\* tp_pairs: zip(trace_diffs, tracepoints).take(pair_count), empty when
\* either list is empty.
tp_pairs_swapped(trace_diffs, tracepoints) ==
    IF trace_diffs # <<>> /\ tracepoints # <<>>
    THEN LET pair_count == IF Len(trace_diffs) <= Len(tracepoints)
                           THEN Len(trace_diffs) ELSE Len(tracepoints)
         IN  [k \in 1..pair_count |-> <<tracepoints[k], trace_diffs[k]>>]
    ELSE <<>>
tp_pairs(trace_diffs, tracepoints) ==
    IF trace_diffs # <<>> /\ tracepoints # <<>>
    THEN LET pair_count == IF Len(trace_diffs) <= Len(tracepoints)
                           THEN Len(trace_diffs) ELSE Len(tracepoints)
         IN  [k \in 1..pair_count |-> <<trace_diffs[k], tracepoints[k]>>]
    ELSE <<>>

\* The line print_alignment_paf writes: the columns computed here, and the
\* tags in order with their values.
print_alignment_paf ==
    /\ paf_line = <<>>
    /\ LET query_span == span(paf_aln.query_end, paf_aln.query_start)
           target_span == span(paf_aln.target_end, paf_aln.target_start)
           block_length == query_span + target_span
           matches == paf_matches(block_length, paf_aln.differences)
           pairs == tp_pairs(paf_aln.trace_diffs, paf_aln.tracepoints)
       IN  paf_line' =
               << [matches |-> matches, block_length |-> block_length, mapq |-> 255,
                   tags |-> <<"df:i">> \o (IF pairs # <<>> THEN <<"tp:Z">> ELSE <<>>),
                   df |-> paf_aln.differences,
                   tp |-> pairs] >>
    /\ UNCHANGED paf_aln
    /\ UNCHANGED <<readerVars, stale_field, countVars, metaVars, pathVars, spacingVars, mainVars>>

NextPaf == print_alignment_paf

InitPafOnly ==
    /\ InitPaf /\ IdleJump /\ IdleMeta /\ IdlePath /\ IdleSpacing /\ IdleMain /\ IdleCount
    /\ IdleReaders /\ stream = <<>>

SpecPaf == InitPafOnly /\ [][NextPaf]_vars

\* ------------------------------------------------------------- C19
Max(a, b) == IF a >= b THEN a ELSE b
Min(a, b) == IF a <= b THEN a ELSE b

\* C19: the block length written is max(0, query_end - query_start) +
\* max(0, target_end - target_start), and the match count written is
\* max(0, (block_length - differences) / 2), never negative.
C19_BlockLengthAndMatches ==
    paf_line # <<>> =>
        LET line == paf_line[1]
            block == Max(0, paf_aln.query_end - paf_aln.query_start) +
                     Max(0, paf_aln.target_end - paf_aln.target_start)
        IN  /\ line.block_length = block
            /\ line.matches = Max(0, (block - paf_aln.differences) \div 2)
            /\ line.matches >= 0

\* One end lies before its start and the differences exceed the block length.
C19_Witness ==
    /\ paf_line # <<>>
    /\ paf_aln.query_end < paf_aln.query_start
    /\ paf_aln.target_end > paf_aln.target_start
    /\ paf_aln.differences > paf_line[1].block_length
    /\ paf_line[1].matches = 0

\* ------------------------------------------------------------- C20
\* C20: the line has a tracepoint tag exactly when both lists are non-empty,
\* and the tag then holds min(len(trace_diffs), len(tracepoints)) pairs, the
\* i-th being (trace_diffs[i], tracepoints[i]).
C20_TracepointTag ==
    paf_line # <<>> =>
        LET line == paf_line[1]
            has_tag == \E k \in 1..Len(line.tags) : line.tags[k] = "tp:Z"
            n == Min(Len(paf_aln.trace_diffs), Len(paf_aln.tracepoints))
        IN  /\ has_tag <=> (paf_aln.trace_diffs # <<>> /\ paf_aln.tracepoints # <<>>)
            /\ has_tag =>
                   /\ Len(line.tp) = n
                   /\ \A i \in 1..n :
                          line.tp[i] = <<paf_aln.trace_diffs[i], paf_aln.tracepoints[i]>>

\* The lists differ in length and the tag holds the shorter number of pairs.
C20_Witness ==
    /\ paf_line # <<>>
    /\ Len(paf_aln.trace_diffs) = 2
    /\ Len(paf_aln.tracepoints) = 1
    /\ paf_line[1].tags = <<"df:i", "tp:Z">>
    /\ Len(paf_line[1].tp) = 1

\* ------------------------------------------------------------- C21
\* The attribute records between primary line p and its boundary.
OwnRecords(p, t) == { j \in (p + 1)..(RunEnd(p) - 1) : stream[j].t = t }
LastOwn(p, t) == CHOOSE j \in OwnRecords(p, t) : \A i \in OwnRecords(p, t) : i <= j

\* C21: a unit starts from strand forward, differences 0 and empty
\* tracepoints and trace_diffs, and the attributes of an emitted unit are
\* those its own run gives it: records of an earlier unit, and attribute
\* records read while no unit is open, leave it untouched.
C21_AttributesFromOwnRunOnly ==
    /\ pc = "parse_loop" /\ pos = loc.src =>
           /\ aln.strand = "+"
           /\ aln.differences = 0
           /\ aln.tracepoints = <<>>
           /\ aln.trace_diffs = <<>>
    /\ \A k \in 1..Len(out) :
           LET p == hist[k].src
           IN  /\ out[k].strand = IF OwnRecords(p, "R") = {} THEN "+" ELSE "-"
               /\ out[k].differences =
                      IF OwnRecords(p, "D") = {} THEN 0 ELSE stream[LastOwn(p, "D")].i[1]
               /\ out[k].tracepoints =
                      IF OwnRecords(p, "T") = {} THEN <<>> ELSE stream[LastOwn(p, "T")].l
               /\ out[k].trace_diffs =
                      IF OwnRecords(p, "X") = {} THEN <<>> ELSE stream[LastOwn(p, "X")].l

\* Two units were emitted, the first with a differences record in its run,
\* the second with none.
C21_Witness ==
    /\ Len(out) = 2
    /\ out[1].differences = 3
    /\ OwnRecords(hist[2].src, "D") = {}
    /\ out[2].differences = 0

\* ------------------------------------------------------------- print_metadata: the alignment count
\* The line that ends the count: '\0'.
is_count_end_primary(t) == t = "A"
is_count_end(t) == t = "EOF"

\* One iteration of the loop of lines 362-368.
count_read ==
    /\ cpc = "count"
    /\ LET p == read_line(cpos)
           t == TypeAt(p)
       IN  /\ cpos' = p
           /\ count' = IF ~is_count_end(t) /\ t = "A" THEN count + 1 ELSE count
           /\ cpc' = IF is_count_end(t) THEN "done" ELSE "count"
    /\ UNCHANGED <<readerVars, stale_field, metaVars, pathVars, spacingVars, mainVars,
                   pafVars>>

\* ------------------------------------------------------------- the three passes of a full run
\* The default run (no --metadata, no --alignment, no --paf) reads the file
\* three times, each time through a reader of its own: the trace spacing
\* scan of get_file_metadata, the count of print_metadata, and
\* read_all_alignments.
InitPasses ==
    /\ stream \in Streams \cup SpacingStreams
    /\ metadata \in Catalogs
    /\ alignment = NoneIdx
    /\ index = "unknown"
    /\ pc = "main"
    /\ pos = 0
    /\ current_line = ""
    /\ next_line = ""
    /\ aln = EmptyAln
    /\ loc = EmptyLoc
    /\ out = <<>>
    /\ hist = <<>>
    /\ err = ""
    /\ trace_spacing = DefaultTraceSpacing /\ spos = 0 /\ spc = "scan"
    /\ count = 0 /\ cpos = 0 /\ cpc = "count"
    /\ IdleJump /\ IdleMeta /\ IdlePath /\ IdleMain /\ IdlePaf

\* print_metadata runs after get_file_metadata has returned.
passes_count == spc = "done" /\ count_read

\* read_all_alignments runs after print_metadata has returned.
passes_scan ==
    /\ cpc = "done"
    /\ \/ main
       \/ all_open
       \/ all_loop
       \/ all_print
       \/ parse_alignment_begin
       \/ parse_alignment_loop
       \/ parse_alignment_end

NextPasses == spacing_read \/ passes_count \/ passes_scan

\* The program is sequential and keeps running: its next step is taken.
SpecPasses == InitPasses /\ [][NextPasses]_vars /\ WF_vars(NextPasses)

\* ------------------------------------------------------------- C22
\* A step of the full forward scan that asks the reader for a line.
ScanReads ==
    \/ all_open
    \/ parse_alignment_loop
    \/ all_loop /\ current_line \notin {"EOF", "A"}

\* C22: on a finite stream the trace spacing scan, the alignment count and
\* the full forward scan each reach their end, and the full forward scan
\* asks for no line once the reader has returned end-of-stream, also when
\* end-of-stream closed the last unit.
C22_PassesTerminate ==
    /\ <>(spc = "done")
    /\ <>(cpc = "done")
    /\ <>(pc \in {"done", "failed"})
    /\ [][pos = Len(stream) + 1 => ~ScanReads]_vars

\* All three passes have ended, the scan on the end-of-stream that closed
\* its last unit.
C22_Witness ==
    /\ spc = "done"
    /\ cpc = "done"
    /\ pc = "done"
    /\ Len(out) >= 1
    /\ hist[Len(hist)].at = Len(stream) + 1
    /\ pos = Len(stream) + 1
    /\ count = Len(out)
====
